---- MODULE Spec2Model ----
(***************************************************************************)
(* A model of src/scraper.py: the screening aggregation run                *)
(* (generate_calendar) as a state machine, and the text heuristics of      *)
(* parse_movie_details / create_event as operators over strings.           *)
(*                                                                         *)
(* A Python str is modelled as a sequence of one-character strings, so     *)
(* that substring tests, split, strip, replace and int() are computed the  *)
(* way Python computes them.                                               *)
(***************************************************************************)
EXTENDS Integers, Sequences, FiniteSets, TLC

VARIABLES
    \* ---- the run of generate_calendar ----
    pc,              \* position of the run in generate_calendar
    date_i,          \* index of the date being processed in `dates`
    busy,            \* dates so far whose index response was non-empty
    index_result,    \* what the last index fetch returned (kind of response)
    bad_ids,         \* ids the detail endpoint cannot serve for this date
    time_slots,      \* result of fetch_screenings_for_date
    screening_ids,   \* ids extracted from time_slots (line 264)
    detail_calls,    \* detail requests issued for this date, in order
    movie_details,   \* result of fetch_movie_details
    slot_i,          \* position of the combine loop in time_slots
    day_start,       \* len(all_screenings) when this date's fetch began
    day_screenings,  \* the code's per-date counter (line 274)
    all_screenings,  \* the accumulated list (line 251)
    event_i,         \* position of the event loop in all_screenings
    cal_events,      \* components added to the calendar (line 310)
    ics_written,     \* _site/nyc-screenings.ics has been written
    html_written,    \* _site/index.html has been written
    raised,          \* the uncaught exception that ended the run, or "none"
    \* ---- one call of parse_movie_details / create_event ----
    ppc,             \* position of the single-call harness
    movie_data,      \* argument of parse_movie_details
    movie,           \* its result
    event            \* result of create_event on the screening built from it

run_vars ==
    <<pc, date_i, busy, index_result, bad_ids, time_slots, screening_ids,
      detail_calls, movie_details, slot_i, day_start, day_screenings,
      all_screenings, event_i, cal_events, ics_written, html_written, raised>>

call_vars ==
    <<ppc, movie_data, movie, event>>

vars ==
    <<run_vars, call_vars>>

(***************************************************************************)
(* Bounds of the model.                                                    *)
(***************************************************************************)
\* most comma-separated tokens in a media_title_info text
MaxParts ==
    4
\* most fragments concatenated into a venue_title text
MaxVenueParts ==
    2
\* most slots the index returns for one date
MaxSlots ==
    25
\* most dates of the window on which the index lists any slot
MaxBusyDates ==
    2

(***************************************************************************)
(* Python str operations.                                                  *)
(***************************************************************************)
Digits ==
    {"0", "1", "2", "3", "4", "5", "6", "7", "8", "9"}

Whitespace ==
    {" "}

\* str.isdigit(): non-empty and every character a digit
isdigit(s) ==
    Len(s) > 0 /\ \A i \in 1..Len(s) : s[i] \in Digits

RECURSIVE lstrip(_, _)
lstrip(s, chars) ==
    IF s # <<>> /\ Head(s) \in chars THEN lstrip(Tail(s), chars) ELSE s

RECURSIVE rstrip(_, _)
rstrip(s, chars) ==
    IF s # <<>> /\ s[Len(s)] \in chars
    THEN rstrip(SubSeq(s, 1, Len(s) - 1), chars)
    ELSE s

\* str.strip()
strip(s) ==
    rstrip(lstrip(s, Whitespace), Whitespace)

\* s[i:].startswith(sub), 1-based
startswith(s, i, sub) ==
    /\ i + Len(sub) - 1 <= Len(s)
    /\ SubSeq(s, i, i + Len(sub) - 1) = sub

\* 1-based str.find(sub) from position i; 0 when absent
RECURSIVE find(_, _, _)
find(s, sub, i) ==
    IF i + Len(sub) - 1 > Len(s) THEN 0
    ELSE IF startswith(s, i, sub) THEN i
    ELSE find(s, sub, i + 1)

\* `sub in s`
contains(sub, s) ==
    find(s, sub, 1) # 0

\* str.replace(old, new): left to right, non-overlapping
RECURSIVE replace(_, _, _)
replace(s, old, new) ==
    LET i == find(s, old, 1) IN
    IF i = 0 THEN s
    ELSE SubSeq(s, 1, i - 1) \o new
         \o replace(SubSeq(s, i + Len(old), Len(s)), old, new)

\* str.split(sep) for a one-character separator
RECURSIVE split(_, _)
split(s, sep) ==
    LET i == find(s, <<sep>>, 1) IN
    IF i = 0 THEN <<s>>
    ELSE <<SubSeq(s, 1, i - 1)>> \o split(SubSeq(s, i + 1, Len(s)), sep)

DigitValue(c) ==
    CASE c = "0" -> 0 [] c = "1" -> 1 [] c = "2" -> 2 [] c = "3" -> 3
      [] c = "4" -> 4 [] c = "5" -> 5 [] c = "6" -> 6 [] c = "7" -> 7
      [] c = "8" -> 8 [] c = "9" -> 9

RECURSIVE DecimalValue(_)
DecimalValue(s) ==
    IF s = <<>> THEN 0
    ELSE 10 * DecimalValue(SubSeq(s, 1, Len(s) - 1)) + DigitValue(s[Len(s)])

\* int(s): surrounding whitespace and one sign are accepted, then digits
\* only; anything else raises ValueError (ok = FALSE).
int(s) ==
    LET t    == strip(s)
        neg  == t # <<>> /\ Head(t) = "-"
        body == IF t # <<>> /\ Head(t) \in {"+", "-"} THEN Tail(t) ELSE t
    IN  IF isdigit(body)
        THEN [ok |-> TRUE,
              val |-> IF neg THEN 0 - DecimalValue(body) ELSE DecimalValue(body)]
        ELSE [ok |-> FALSE, val |-> 0]

(***************************************************************************)
(* Text constants of the source.                                           *)
(***************************************************************************)
IFC_Center ==
    <<"I","F","C"," ","C","e","n","t","e","r">>
Film_Forum ==
    <<"F","i","l","m"," ","F","o","r","u","m">>
Metrograph ==
    <<"M","e","t","r","o","g","r","a","p","h">>
Anthology_Film_Archives ==
    <<"A","n","t","h","o","l","o","g","y"," ","F","i","l","m"," ","A","r","c","h","i","v","e","s">>
SPAN_OPEN ==
    <<"<","s","p","a","n",">">>
SPAN_CLOSE ==
    <<"<","/","s","p","a","n",">">>

\* the loop list of line 87, each entry as it is spliced into f" {venue}"
TitleSuffixes ==
    << <<" ","a","t"," ">> \o IFC_Center,
       <<" ","a","t"," ">> \o Film_Forum,
       <<" ","a","t"," ">> \o Metrograph,
       <<" ","a","t"," ">> \o Anthology_Film_Archives >>

\* create_event's default duration (line 169)
DefaultDurationMinutes ==
    120

(***************************************************************************)
(* parse_movie_details (lines 83-139).                                     *)
(***************************************************************************)
\* lines 86-88: every " at VENUE" is removed from the title
RECURSIVE strip_title(_, _)
strip_title(title, k) ==
    IF k > Len(TitleSuffixes) THEN title
    ELSE strip_title(replace(title, TitleSuffixes[k], <<>>), k + 1)

\* lines 100-105: one token of the info text; `acc` holds director, year
\* and runtime as assigned so far, and every matching token overwrites.
classify_part(part, acc) ==
    IF isdigit(strip(part)) /\ Len(strip(part)) = 4
    THEN [acc EXCEPT !.year = strip(part)]
    ELSE IF /\ contains(<<"M">>, strip(part))
            /\ \E i \in 1..Len(part) : part[i] \in Digits
    THEN [acc EXCEPT !.runtime = rstrip(strip(part), {"M"})]
    ELSE IF strip(part) # <<>>
    THEN [acc EXCEPT !.director = strip(part)]
    ELSE acc

RECURSIVE classify_parts(_, _, _)
classify_parts(parts, k, acc) ==
    IF k > Len(parts) THEN acc
    ELSE classify_parts(parts, k + 1, classify_part(parts[k], acc))

\* lines 97-98: the tokens of the info text
info_parts(info) ==
    LET cleaned == strip(replace(replace(info, SPAN_OPEN, <<>>), SPAN_CLOSE, <<>>))
        raw     == split(cleaned, ",")
    IN  [k \in 1..Len(raw) |-> strip(raw[k])]

\* lines 91-105
parse_info(info) ==
    LET none == [director |-> <<>>, year |-> <<>>, runtime |-> <<>>] IN
    IF info = <<>> THEN none
    ELSE classify_parts(info_parts(info), 1, none)

\* lines 117-126 with the tests of lines 119 and 121 swapped (a mutation of
\* parse_venue: Film Forum is tested before IFC Center)
parse_venue_film_forum_first(venue_title) ==
    IF contains(Film_Forum, venue_title) THEN Film_Forum
    ELSE IF contains(IFC_Center, venue_title) THEN IFC_Center
    ELSE IF contains(Metrograph, venue_title) THEN Metrograph
    ELSE IF contains(Anthology_Film_Archives, venue_title)
    THEN Anthology_Film_Archives
    ELSE <<>>

\* lines 117-126: the first name, in the order tested, that venue_title
\* contains; `in` compares case-sensitively
parse_venue(venue_title) ==
    IF contains(IFC_Center, venue_title) THEN IFC_Center
    ELSE IF contains(Film_Forum, venue_title) THEN Film_Forum
    ELSE IF contains(Metrograph, venue_title) THEN Metrograph
    ELSE IF contains(Anthology_Film_Archives, venue_title)
    THEN Anthology_Film_Archives
    ELSE <<>>

\* series and url are copied through and decide nothing; they are left out
parse_movie_details(data) ==
    LET parsed == parse_info(data.media_title_info) IN
    [title    |-> strip_title(data.title, 1),
     director |-> parsed.director,
     year     |-> parsed.year,
     runtime  |-> parsed.runtime,
     venue    |-> parse_venue(data.venue_title)]

(***************************************************************************)
(* create_event (lines 141-175): the duration and the exception it can     *)
(* raise.  Summary, description and the localized start are built from     *)
(* the same fields without failing and are left out; Event.add is taken    *)
(* to store the value it is given.                                         *)
(***************************************************************************)
create_event(screening) ==
    IF screening.runtime # <<>>
    THEN IF int(screening.runtime).ok
         THEN [raised |-> FALSE, duration_minutes |-> int(screening.runtime).val]
         ELSE [raised |-> TRUE, duration_minutes |-> 0]
    ELSE [raised |-> FALSE, duration_minutes |-> DefaultDurationMinutes]

(***************************************************************************)
(* One call of parse_movie_details followed by create_event, on an         *)
(* argument drawn from bounded sets of texts.                              *)
(***************************************************************************)
InfoTokens ==
    { <<"A","g","n","e","s"," ","V","a","r","d","a">>,
      <<" ","1","9","8","5">>,
      <<" ","2","0","0","1"," ">>,
      <<"1","2","3","4">>,
      <<" ","9","0","M">>,
      <<"0","M">>,
      <<"3","5","M","M">>,
      <<"M","O","N","O"," ","5">>,
      <<" ","D","C","P">> }

\* "Agnes Varda, 1985, 90M, DCP"
ScenarioA ==
    <<"A","g","n","e","s"," ","V","a","r","d","a",","," ","1","9","8","5",","," ","9","0","M",","," ","D","C","P">>

RECURSIVE InfoTextsOf(_)
InfoTextsOf(n) ==
    IF n = 1 THEN InfoTokens
    ELSE {t \o <<",">> \o tok : t \in InfoTextsOf(n - 1), tok \in InfoTokens}

InfoTexts ==
    {<<>>, SPAN_OPEN \o ScenarioA \o SPAN_CLOSE}
    \cup UNION {InfoTextsOf(n) : n \in 1..MaxParts}

VenueFragments ==
    { IFC_Center, Film_Forum, Metrograph, Anthology_Film_Archives,
      <<"f","i","l","m"," ","f","o","r","u","m">>,
      <<"I","F","C"," ","C","E","N","T","E","R">>,
      <<"Q","u","a","d"," ","C","i","n","e","m","a">>,
      <<"F","i","l","m"," ">>,
      <<"F","o","r","u","m">>,
      <<" ","a","t"," ">> }

RECURSIVE VenueTextsOf(_)
VenueTextsOf(n) ==
    IF n = 0 THEN {<<>>}
    ELSE {t \o f : t \in VenueTextsOf(n - 1), f \in VenueFragments}

VenueTexts ==
    UNION {VenueTextsOf(n) : n \in 0..MaxVenueParts}

Titles ==
    { <<"C","l","e","o">>,
      <<"J","e","a","n","n","e"," ","D","i","e","l","m","a","n">> \o TitleSuffixes[2] }

MovieInputs ==
    {[title |-> Titles_1, media_title_info |-> i, venue_title |-> Film_Forum]
        : Titles_1 \in {<<"C","l","e","o">>}, i \in InfoTexts}
    \cup
    {[title |-> t, media_title_info |-> ScenarioA, venue_title |-> v]
        : t \in Titles, v \in VenueTexts}

NoData ==
    [title |-> <<>>, media_title_info |-> <<>>, venue_title |-> <<>>]

NoMovie ==
    [title |-> <<>>, director |-> <<>>, year |-> <<>>, runtime |-> <<>>,
     venue |-> <<>>]

NoEvent ==
    [raised |-> FALSE, duration_minutes |-> 0]

CallIdle ==
    /\ ppc = "idle"
    /\ movie_data = NoData
    /\ movie = NoMovie
    /\ event = NoEvent

CallInit ==
    /\ ppc = "input"
    /\ movie_data \in MovieInputs
    /\ movie = NoMovie
    /\ event = NoEvent

\* movie = parse_movie_details(movie_details[slot_id])   (line 278)
ParseMovie ==
    /\ ppc = "input"
    /\ movie' = parse_movie_details(movie_data)
    /\ ppc' = "parsed"
    /\ UNCHANGED <<movie_data, event, run_vars>>

\* a screening is built only for a parsed venue (line 279), and
\* create_event is then applied to it (line 308)
BuildEvent ==
    /\ ppc = "parsed"
    /\ movie.venue # <<>>
    /\ event' = create_event(movie)
    /\ ppc' = "event"
    /\ UNCHANGED <<movie_data, movie, run_vars>>

CallNext ==
    ParseMovie \/ BuildEvent

(***************************************************************************)
(* The upstream service, as the run sees it.                               *)
(***************************************************************************)
\* the window of get_date_range (line 23)
NumDates ==
    7

\* the batch size of the specification's Detail Batch Resolver; the source
\* has no such constant (fetch_movie_details sends every id in one request)
BatchSize ==
    20

\* ids the detail endpoint knows; any other id is absent from its answer
KnownIds ==
    1..MaxSlots

UnknownIds ==
    {42}

\* the detail object the endpoint serves for a known id
DetailOf(id) ==
    CASE id = 1 ->
           [title |-> <<"J","e","a","n","n","e"," ","D","i","e","l","m","a","n">>
                      \o TitleSuffixes[2],
            media_title_info |-> ScenarioA,
            venue_title |-> Film_Forum]
      [] id = 3 ->
           [title |-> <<"C","l","e","o">>,
            media_title_info |-> <<>>,
            venue_title |-> Anthology_Film_Archives]
      [] id = 4 ->
           [title |-> <<"C","l","e","o">>,
            media_title_info |-> <<"0","M">>,
            venue_title |-> Metrograph]
      [] id = 5 ->
           [title |-> <<"C","l","e","o">>,
            media_title_info |-> <<"V","a","r","d","a",","," ","M","O","N","O"," ","5">>,
            venue_title |-> IFC_Center]
      [] OTHER ->
           [title |-> <<"C","l","e","o">>,
            media_title_info |-> <<"1","9","6","2">>,
            venue_title |-> <<"Q","u","a","d"," ","C","i","n","e","m","a">>]

\* parse_movie_details of each served detail
MovieOf ==
    [id \in KnownIds |-> parse_movie_details(DetailOf(id))]

\* one slot of the index response for date d; field_timestamp names the
\* date and the showtime's place in its listing, and strptime (line 286)
\* yields that same date and showtime
Slot(d, id, k) ==
    [has_nid |-> TRUE, nid |-> id, has_timestamp |-> TRUE,
     field_timestamp |-> <<d, k>>]

Prefix(d, n) ==
    [k \in 1..n |-> Slot(d, k, k)]

SlotCounts ==
    {1, 2, 3, 4, 5, BatchSize, BatchSize + 1, MaxSlots}

\* lists in which every slot has its id and its timestamp
WellFormedLists(d) ==
    {Prefix(d, n) : n \in SlotCounts}
    \cup {<<Slot(d, u, 1)>> : u \in UnknownIds}
    \cup {<<Slot(d, 1, 1), Slot(d, u, 2), Slot(d, 2, 3), Slot(d, 3, 4)>>
              : u \in UnknownIds}
    \cup {<<Slot(d, 1, 1), Slot(d, 1, 2)>>}

\* lists in which a slot lacks its id or its timestamp
MalformedLists(d) ==
    { <<[Slot(d, 1, 1) EXCEPT !.has_nid = FALSE]>>,
      <<[Slot(d, 1, 1) EXCEPT !.has_timestamp = FALSE]>>,
      <<[Slot(d, 2, 1) EXCEPT !.has_timestamp = FALSE]>>,
      <<Slot(d, 3, 1), [Slot(d, 1, 2) EXCEPT !.has_timestamp = FALSE]>> }

SlotLists(d) ==
    WellFormedLists(d) \cup MalformedLists(d)

\* requests.RequestException as raised by get, raise_for_status and json
\* (requests.JSONDecodeError is a RequestException)
RequestExceptions ==
    {"ConnectionError", "Timeout", "HTTPError", "JSONDecodeError"}

ShapeOf(slots) ==
    IF \E k \in 1..Len(slots) : ~slots[k].has_nid THEN "list_without_nid"
    ELSE IF \E k \in 1..Len(slots) : ~slots[k].has_timestamp
    THEN "list_without_timestamp"
    ELSE "slots"

IdsOf(slots) ==
    [k \in 1..Len(slots) |-> slots[k].nid]

Range(seq) ==
    {seq[k] : k \in 1..Len(seq)}

\* the ids the detail endpoint may be unable to serve on a date: none, the
\* first listed or the last listed; a request naming such an id fails with
\* a RequestException (an error status or a broken connection)
BadIdChoices(slots) ==
    {{}, {slots[1].nid}, {slots[Len(slots)].nid}}

None ==
    [kind |-> "None", slots |-> <<>>, keys |-> {}]

NoException ==
    [exc |-> "none", line |-> 0]

(***************************************************************************)
(* generate_calendar (lines 237-321).                                      *)
(***************************************************************************)
RunIdle ==
    /\ pc = "idle"
    /\ date_i = 0
    /\ busy = 0
    /\ index_result = "none"
    /\ bad_ids = {}
    /\ time_slots = None
    /\ screening_ids = <<>>
    /\ detail_calls = <<>>
    /\ movie_details = None
    /\ slot_i = 0
    /\ day_start = 0
    /\ day_screenings = 0
    /\ all_screenings = <<>>
    /\ event_i = 0
    /\ cal_events = <<>>
    /\ ics_written = FALSE
    /\ html_written = FALSE
    /\ raised = NoException

\* lines 240-255: an empty list, and the loop at its first date
RunInit ==
    /\ pc = "fetch_index"
    /\ date_i = 1
    /\ busy = 0
    /\ index_result = "none"
    /\ bad_ids = {}
    /\ time_slots = None
    /\ screening_ids = <<>>
    /\ detail_calls = <<>>
    /\ movie_details = None
    /\ slot_i = 0
    /\ day_start = 0
    /\ day_screenings = 0
    /\ all_screenings = <<>>
    /\ event_i = 0
    /\ cal_events = <<>>
    /\ ics_written = FALSE
    /\ html_written = FALSE
    /\ raised = NoException

\* `continue`, or the end of the loop body: the next date, or line 294
NextDate ==
    /\ date_i' = date_i + 1
    /\ pc' = IF date_i + 1 > NumDates THEN "totals" ELSE "fetch_index"

\* an uncaught exception unwinds generate_calendar
Abort(exc, line) ==
    /\ raised' = [exc |-> exc, line |-> line]
    /\ pc' = "aborted"
    /\ UNCHANGED date_i

\* what every index fetch of a date does to the bookkeeping of the model
BeginDate(result, bad) ==
    /\ index_result' = result
    /\ bad_ids' = bad
    /\ detail_calls' = <<>>
    /\ day_start' = Len(all_screenings)

\* lines 258-261, 39-49: the request raises a RequestException, which
\* fetch_screenings_for_date catches; it returns None and the date is skipped
IndexRaises ==
    /\ pc = "fetch_index"
    /\ \E e \in RequestExceptions : BeginDate(e, {})
    /\ time_slots' = None
    /\ NextDate
    /\ UNCHANGED <<busy, screening_ids, movie_details, slot_i, day_screenings,
                   all_screenings, event_i, cal_events, ics_written,
                   html_written, raised, call_vars>>

\* lines 258-261: the response decodes to an empty list, which is falsy
IndexEmpty ==
    /\ pc = "fetch_index"
    /\ BeginDate("empty", {})
    /\ time_slots' = [kind |-> "list", slots |-> <<>>, keys |-> {}]
    /\ NextDate
    /\ UNCHANGED <<busy, screening_ids, movie_details, slot_i, day_screenings,
                   all_screenings, event_i, cal_events, ics_written,
                   html_written, raised, call_vars>>

\* lines 258-264: the response decodes to a non-empty JSON object; it is
\* truthy, the comprehension iterates its keys and str['nid'] raises
IndexObject ==
    /\ pc = "fetch_index"
    /\ BeginDate("object", {})
    /\ time_slots' = [kind |-> "object", slots |-> <<>>, keys |-> {}]
    /\ Abort("TypeError", 264)
    /\ UNCHANGED <<busy, screening_ids, movie_details, slot_i, day_screenings,
                   all_screenings, event_i, cal_events, ics_written,
                   html_written, call_vars>>

\* lines 258-264: the response decodes to a non-empty list; slot['nid'] of
\* a slot without that key raises KeyError
IndexSlots ==
    /\ pc = "fetch_index"
    /\ busy < MaxBusyDates
    /\ busy' = busy + 1
    /\ \E slots \in SlotLists(date_i) :
        /\ time_slots' = [kind |-> "list", slots |-> slots, keys |-> {}]
        /\ \/ /\ ShapeOf(slots) = "list_without_nid"
              /\ BeginDate(ShapeOf(slots), {})
              /\ Abort("KeyError", 264)
              /\ UNCHANGED screening_ids
           \/ /\ ShapeOf(slots) # "list_without_nid"
              /\ \E bad \in BadIdChoices(slots) : BeginDate(ShapeOf(slots), bad)
              /\ screening_ids' = IdsOf(slots)
              /\ pc' = "fetch_details"
              /\ UNCHANGED <<date_i, raised>>
    /\ UNCHANGED <<movie_details, slot_i, day_screenings, all_screenings,
                   event_i, cal_events, ics_written, html_written, call_vars>>

\* the one request of fetch_movie_details (lines 57-65): every id, joined
DetailRequest ==
    screening_ids

\* lines 267-270, 63-81: the request raises a RequestException;
\* fetch_movie_details returns None and the date is skipped
DetailsRaise ==
    /\ pc = "fetch_details"
    /\ Range(DetailRequest) \cap bad_ids # {}
    /\ detail_calls' = Append(detail_calls, [ids |-> DetailRequest, ok |-> FALSE])
    /\ movie_details' = None
    /\ NextDate
    /\ UNCHANGED <<busy, index_result, bad_ids, time_slots, screening_ids,
                   slot_i, day_start, day_screenings, all_screenings, event_i,
                   cal_events, ics_written, html_written, raised, call_vars>>

\* lines 267-274, 63-78: the response is a dict keyed by id, holding the
\* ids the endpoint knows; an empty dict is falsy and the date is skipped
DetailsDict ==
    /\ pc = "fetch_details"
    /\ Range(DetailRequest) \cap bad_ids = {}
    /\ detail_calls' = Append(detail_calls, [ids |-> DetailRequest, ok |-> TRUE])
    /\ movie_details' = [kind |-> "dict", slots |-> <<>>,
                         keys |-> Range(DetailRequest) \cap KnownIds]
    /\ \/ /\ Range(DetailRequest) \cap KnownIds = {}
          /\ NextDate
          /\ UNCHANGED <<slot_i, day_screenings>>
       \/ /\ Range(DetailRequest) \cap KnownIds # {}
          /\ pc' = "combine"
          /\ slot_i' = 1
          /\ day_screenings' = 0
          /\ UNCHANGED date_i
    /\ UNCHANGED <<busy, index_result, bad_ids, time_slots, screening_ids,
                   day_start, all_screenings, event_i, cal_events, ics_written,
                   html_written, raised, call_vars>>

\* lines 70-73: the response is a non-empty list of objects; data[sample_id]
\* indexes the list with its first element and raises TypeError, which the
\* except clause for RequestException does not catch
DetailsList ==
    /\ pc = "fetch_details"
    /\ Range(DetailRequest) \cap bad_ids = {}
    /\ Range(DetailRequest) \cap KnownIds # {}
    /\ detail_calls' = Append(detail_calls, [ids |-> DetailRequest, ok |-> TRUE])
    /\ Abort("TypeError", 73)
    /\ UNCHANGED <<busy, index_result, bad_ids, time_slots, screening_ids,
                   movie_details, slot_i, day_start, day_screenings,
                   all_screenings, event_i, cal_events, ics_written,
                   html_written, call_vars>>

\* lines 277-279 with the venue test dropped (a mutation of keeps_slot)
keeps_slot_any_venue(slot, details) ==
    slot.nid \in details.keys

\* lines 277-279: the slot's id is in the map and its detail has a venue
keeps_slot(slot, details) ==
    /\ slot.nid \in details.keys
    /\ MovieOf[slot.nid].venue # <<>>

\* lines 280-289: the screening built from a slot and its parsed detail
screening_of(slot) ==
    [title    |-> MovieOf[slot.nid].title,
     director |-> MovieOf[slot.nid].director,
     year     |-> MovieOf[slot.nid].year,
     runtime  |-> MovieOf[slot.nid].runtime,
     datetime |-> slot.field_timestamp,
     venue    |-> MovieOf[slot.nid].venue]

\* the end of one pass of the loop of line 275
NextSlot ==
    slot_i' = slot_i + 1 /\ UNCHANGED <<pc, date_i>>

\* lines 275-292: the slot is kept and its screening appended
CombineAdd ==
    /\ pc = "combine"
    /\ slot_i <= Len(time_slots.slots)
    /\ keeps_slot(time_slots.slots[slot_i], movie_details)
    /\ time_slots.slots[slot_i].has_timestamp
    /\ all_screenings' = Append(all_screenings, screening_of(time_slots.slots[slot_i]))
    /\ day_screenings' = day_screenings + 1
    /\ NextSlot
    /\ UNCHANGED <<busy, index_result, bad_ids, time_slots, screening_ids,
                   detail_calls, movie_details, day_start, event_i, cal_events,
                   ics_written, html_written, raised, call_vars>>

\* lines 275-279: the slot's id is not in the map, or its detail has no venue
CombineDrop ==
    /\ pc = "combine"
    /\ slot_i <= Len(time_slots.slots)
    /\ ~keeps_slot(time_slots.slots[slot_i], movie_details)
    /\ NextSlot
    /\ UNCHANGED <<busy, index_result, bad_ids, time_slots, screening_ids,
                   detail_calls, movie_details, day_start, day_screenings,
                   all_screenings, event_i, cal_events, ics_written,
                   html_written, raised, call_vars>>

\* line 286: slot['field_timestamp'] of a kept slot without that key
CombineRaises ==
    /\ pc = "combine"
    /\ slot_i <= Len(time_slots.slots)
    /\ keeps_slot(time_slots.slots[slot_i], movie_details)
    /\ ~time_slots.slots[slot_i].has_timestamp
    /\ Abort("KeyError", 286)
    /\ UNCHANGED <<busy, index_result, bad_ids, time_slots, screening_ids,
                   detail_calls, movie_details, slot_i, day_start,
                   day_screenings, all_screenings, event_i, cal_events,
                   ics_written, html_written, call_vars>>

\* line 275: time_slots is exhausted; the loop body of line 255 ends
CombineEnd ==
    /\ pc = "combine"
    /\ slot_i > Len(time_slots.slots)
    /\ NextDate
    /\ UNCHANGED <<busy, index_result, bad_ids, time_slots, screening_ids,
                   detail_calls, movie_details, slot_i, day_start,
                   day_screenings, all_screenings, event_i, cal_events,
                   ics_written, html_written, raised, call_vars>>

\* lines 294-299: nothing was accumulated; the run returns without output
ReturnEmpty ==
    /\ pc = "totals"
    /\ Len(all_screenings) = 0
    /\ pc' = "no_calendar"
    /\ UNCHANGED <<date_i, busy, index_result, bad_ids, time_slots,
                   screening_ids, detail_calls, movie_details, slot_i,
                   day_start, day_screenings, all_screenings, event_i,
                   cal_events, ics_written, html_written, raised, call_vars>>

\* lines 294-306
StartOutput ==
    /\ pc = "totals"
    /\ Len(all_screenings) # 0
    /\ pc' = "events"
    /\ event_i' = 1
    /\ UNCHANGED <<date_i, busy, index_result, bad_ids, time_slots,
                   screening_ids, detail_calls, movie_details, slot_i,
                   day_start, day_screenings, all_screenings, cal_events,
                   ics_written, html_written, raised, call_vars>>

\* lines 307-311: one event is created and added to the calendar
AddEvent ==
    /\ pc = "events"
    /\ ~create_event(all_screenings[event_i]).raised
    /\ cal_events' = Append(cal_events,
          [duration_minutes |-> create_event(all_screenings[event_i]).duration_minutes,
           location |-> all_screenings[event_i].venue,
           dtstart |-> all_screenings[event_i].datetime])
    /\ IF event_i = Len(all_screenings)
       THEN pc' = "write" /\ UNCHANGED event_i
       ELSE event_i' = event_i + 1 /\ UNCHANGED pc
    /\ UNCHANGED <<date_i, busy, index_result, bad_ids, time_slots,
                   screening_ids, detail_calls, movie_details, slot_i,
                   day_start, day_screenings, all_screenings, ics_written,
                   html_written, raised, call_vars>>

\* line 169: int(screening['runtime']) raises ValueError
EventRaises ==
    /\ pc = "events"
    /\ create_event(all_screenings[event_i]).raised
    /\ Abort("ValueError", 169)
    /\ UNCHANGED <<busy, index_result, bad_ids, time_slots, screening_ids,
                   detail_calls, movie_details, slot_i, day_start,
                   day_screenings, all_screenings, event_i, cal_events,
                   ics_written, html_written, call_vars>>

\* lines 313-315
WriteCalendar ==
    /\ pc = "write"
    /\ ics_written' = TRUE
    /\ pc' = "html"
    /\ UNCHANGED <<date_i, busy, index_result, bad_ids, time_slots,
                   screening_ids, detail_calls, movie_details, slot_i,
                   day_start, day_screenings, all_screenings, event_i,
                   cal_events, html_written, raised, call_vars>>

\* lines 317-321
WriteHtml ==
    /\ pc = "html"
    /\ html_written' = TRUE
    /\ pc' = "done"
    /\ UNCHANGED <<date_i, busy, index_result, bad_ids, time_slots,
                   screening_ids, detail_calls, movie_details, slot_i,
                   day_start, day_screenings, all_screenings, event_i,
                   cal_events, ics_written, raised, call_vars>>

RunNext ==
    \/ IndexRaises
    \/ IndexEmpty
    \/ IndexObject
    \/ IndexSlots
    \/ DetailsRaise
    \/ DetailsDict
    \/ DetailsList
    \/ CombineAdd
    \/ CombineDrop
    \/ CombineRaises
    \/ CombineEnd
    \/ ReturnEmpty
    \/ StartOutput
    \/ AddEvent
    \/ EventRaises
    \/ WriteCalendar
    \/ WriteHtml

(***************************************************************************)
(* Specifications.                                                         *)
(***************************************************************************)
Init ==
    RunInit /\ CallIdle

Next ==
    RunNext

\* a run of generate_calendar against the service
Spec ==
    Init /\ [][Next]_vars

InitParse ==
    RunIdle /\ CallInit

\* one call of parse_movie_details and create_event on a drawn argument
SpecParse ==
    InitParse /\ [][CallNext]_vars

(***************************************************************************)
(* Helpers of the properties.                                              *)
(***************************************************************************)
Min(S) ==
    CHOOSE x \in S : \A y \in S : x <= y

\* `name` occurs in `s` at some position
HasSubstring(name, s) ==
    \E i \in 1..(Len(s) - Len(name) + 1) : SubSeq(s, i, i + Len(name) - 1) = name

Lower(c) ==
    CASE c = "A" -> "a" [] c = "B" -> "b" [] c = "C" -> "c" [] c = "D" -> "d"
      [] c = "E" -> "e" [] c = "F" -> "f" [] c = "G" -> "g" [] c = "H" -> "h"
      [] c = "I" -> "i" [] c = "J" -> "j" [] c = "K" -> "k" [] c = "L" -> "l"
      [] c = "M" -> "m" [] c = "N" -> "n" [] c = "O" -> "o" [] c = "P" -> "p"
      [] c = "Q" -> "q" [] c = "R" -> "r" [] c = "S" -> "s" [] c = "T" -> "t"
      [] c = "U" -> "u" [] c = "V" -> "v" [] c = "W" -> "w" [] c = "X" -> "x"
      [] c = "Y" -> "y" [] c = "Z" -> "z" [] OTHER -> c

lower(s) ==
    [i \in 1..Len(s) |-> Lower(s[i])]

Whitelist ==
    {Film_Forum, Metrograph, IFC_Center, Anthology_Film_Archives}

\* the order in which lines 119-126 test the names
SourceOrder ==
    <<IFC_Center, Film_Forum, Metrograph, Anthology_Film_Archives>>

\* the order the specification declares
DeclaredOrder ==
    <<Film_Forum, Metrograph, IFC_Center, Anthology_Film_Archives>>

\* the k-th batch of at most BatchSize ids, and the number of batches
Chunk(ids, k) ==
    SubSeq(ids, (k - 1) * BatchSize + 1,
           IF k * BatchSize < Len(ids) THEN k * BatchSize ELSE Len(ids))

NumChunks(ids) ==
    (Len(ids) + BatchSize - 1) \div BatchSize

\* the ids of the date's resolved id-to-detail map
Resolved ==
    IF movie_details.kind = "dict" THEN movie_details.keys ELSE {}

\* the screenings this date has contributed
DayScreenings ==
    SubSeq(all_screenings, day_start + 1, Len(all_screenings))

\* index responses that are failures of the fetch or do not decode as a
\* list of slots with an id and a timestamp
IndexFailureKinds ==
    RequestExceptions \cup {"object", "list_without_nid", "list_without_timestamp"}

Parsed ==
    ppc \in {"parsed", "event"}

\* the specification's token classes (section 4.4, rules 1-3)
IsYearToken(t) ==
    /\ Len(t) = 4
    /\ isdigit(t)
    /\ SubSeq(t, 1, 2) \in {<<"1", "9">>, <<"2", "0">>}

IsRuntimeToken(t) ==
    /\ Len(t) >= 2
    /\ t[Len(t)] = "M"
    /\ isdigit(SubSeq(t, 1, Len(t) - 1))

FormatTokens ==
    {<<"D","C","P">>, <<"3","5","M","M">>, <<"1","6","M","M">>, <<"7","0","M","M">>}

(***************************************************************************)
(* Properties of the run (specification Spec).                             *)
(***************************************************************************)
\* C1: whatever way the index fetch of a date fails (a request exception,
\* or a response that is not a list of slots with an id and a timestamp),
\* the run is not aborted by it and the date contributes no screening.
C1_IndexFailureIsFailSoft ==
    index_result \in IndexFailureKinds =>
        /\ ~(pc = "aborted" /\ raised.line \in {264, 286})
        /\ Len(all_screenings) = day_start

\* C2: once a date's detail resolution is over, the map holds every known
\* id of every batch of 20 that the endpoint could serve and no id of a
\* batch it could not (ids 1..25 with the second batch failing: 1..20).
C2_BatchFailureIsIsolated ==
    (detail_calls # <<>> /\ raised.exc = "none") =>
        \A k \in 1..NumChunks(screening_ids) :
            IF Range(Chunk(screening_ids, k)) \cap bad_ids = {}
            THEN Range(Chunk(screening_ids, k)) \cap KnownIds \subseteq Resolved
            ELSE Range(Chunk(screening_ids, k)) \cap Resolved = {}

\* C3: once a date's detail resolution is over, the endpoint has been
\* called ceil(n/20) times, the k-th call carrying the k-th batch of at
\* most 20 ids, so that the calls carry every id exactly once, in order.
C3_DetailCallsAreBatchesOfTwenty ==
    (detail_calls # <<>> /\ pc # "fetch_details") =>
        /\ Len(detail_calls) = NumChunks(screening_ids)
        /\ \A k \in 1..Len(detail_calls) :
            /\ Len(detail_calls[k].ids) <= BatchSize
            /\ detail_calls[k].ids = Chunk(screening_ids, k)

\* C4: every accumulated screening has a whitelisted venue; while a date
\* is combined, its screenings are exactly those of the slots gone past
\* whose id is in the resolved map and whose detail has a whitelisted
\* venue, one screening per such slot and none for any other slot.
C4_ScreeningsAreWhitelistedAndJoined ==
    /\ \A i \in 1..Len(all_screenings) : all_screenings[i].venue \in Whitelist
    /\ pc = "combine" =>
        LET slots == time_slots.slots
            kept  == {k \in 1..(slot_i - 1) :
                        /\ slots[k].nid \in Resolved
                        /\ parse_venue(DetailOf(slots[k].nid).venue_title) \in Whitelist}
        IN  /\ Len(DayScreenings) = Cardinality(kept)
            /\ Len(DayScreenings) = day_screenings
            /\ \A j \in 1..Len(DayScreenings) :
                \E k \in kept :
                    /\ DayScreenings[j].datetime = slots[k].field_timestamp
                    /\ DayScreenings[j].venue
                         = parse_venue(DetailOf(slots[k].nid).venue_title)
            /\ \A j1, j2 \in 1..Len(DayScreenings) :
                j1 # j2 => DayScreenings[j1].datetime # DayScreenings[j2].datetime

\* C4 witness: a date being combined has contributed a screening, dropped
\* a slot whose id is not in the map and dropped a slot without a venue.
C4_Witness ==
    /\ pc = "combine"
    /\ Len(DayScreenings) >= 2
    /\ \E k \in 1..(slot_i - 1) : time_slots.slots[k].nid \notin Resolved
    /\ \E k \in 1..(slot_i - 1) :
        /\ time_slots.slots[k].nid \in Resolved
        /\ MovieOf[time_slots.slots[k].nid].venue = <<>>

\* C8: no text of a detail aborts the run: create_event never raises on a
\* runtime it cannot read, and a run that ends normally has an event for
\* every accumulated screening.
C8_TextNeverAbortsTheRun ==
    /\ ~(pc = "aborted" /\ raised.line = 169)
    /\ pc = "done" => Len(cal_events) = Len(all_screenings)

\* C9: every event lasts the screening's runtime when that is present and
\* positive and 120 minutes otherwise, and never lasts zero or less.
C9_DurationIsPositiveRuntimeOrDefault ==
    \A i \in 1..Len(cal_events) :
        /\ cal_events[i].duration_minutes > 0
        /\ IF /\ all_screenings[i].runtime # <<>>
              /\ int(all_screenings[i].runtime).ok
              /\ int(all_screenings[i].runtime).val > 0
           THEN cal_events[i].duration_minutes = int(all_screenings[i].runtime).val
           ELSE cal_events[i].duration_minutes = 120

\* C10: output is written only after all dates were processed; once they
\* were and the run has ended, a calendar exists exactly when screenings
\* were accumulated, with one event per screening, and nothing is written
\* when none was.
C10_CalendarIffScreenings ==
    /\ (ics_written \/ html_written) =>
        /\ date_i > NumDates
        /\ Len(cal_events) = Len(all_screenings)
    /\ pc = "no_calendar" => (all_screenings = <<>> /\ ~ics_written /\ ~html_written)
    /\ (pc \in {"done", "no_calendar", "aborted"} /\ date_i > NumDates) =>
        (ics_written <=> all_screenings # <<>>)

C6_YearIsTheOne19or20Token ==
    Parsed =>
        LET toks  == info_parts(movie_data.media_title_info)
            years == {k \in 1..Len(toks) : IsYearToken(toks[k])}
        IN  /\ Cardinality(years) = 1 => movie.year = toks[Min(years)]
            /\ movie.year # <<>> => IsYearToken(movie.year)

\* C7: the director is the first token, in token order, that is not a
\* year, a runtime or a format; no later token replaces it.
C7_DirectorIsFirstUnclassifiedToken ==
    Parsed =>
        LET toks == info_parts(movie_data.media_title_info)
            rest == {k \in 1..Len(toks) :
                        /\ toks[k] # <<>>
                        /\ ~IsYearToken(toks[k])
                        /\ ~IsRuntimeToken(toks[k])
                        /\ toks[k] \notin FormatTokens}
        IN  IF rest = {} THEN movie.director = <<>>
            ELSE movie.director = toks[Min(rest)]

====
